---- MODULE Spec2Model ----
(***************************************************************************)
(* Drip-feed ingestion scheduler of scrapper_main.py, with the receiver   *)
(* of api_server.py and the DataMiner of ola.py.                           *)
(*                                                                         *)
(* Spec, LiveSpec, SpecErr and SpecCadencia run the drip loop;             *)
(* SpecComponentes calls the fetchers, the generator and the receiver on   *)
(* their own; SpecMinero runs DataMiner; SpecTurbo runs the turbo mode.    *)
(*                                                                         *)
(* The loop of iniciar_modo_goteo is one sequential thread.  It is cut at  *)
(* its suspension points (the two fetches, the POST, the sleep), so that   *)
(* the wall clock and an external interrupt can be observed between them.  *)
(* Time is counted in whole seconds.  Clock readings saturate at MaxReloj. *)
(* Every record carries a model tag `id`: the rank of a real record in the *)
(* order of the appends to cola_de_envio, 0 for a synthetic record.        *)
(***************************************************************************)
EXTENDS Integers, Sequences, FiniteSets, TLC

\* ---------------------------------------------------------------- bounds
InicioReloj == 100
MaxReloj == 166
MaxSenales == 1
MaxExcepciones == 1
MaxTicksTurbo == 61
MaxLlamadas == 4

\* ------------------------------------------------------ program constants
INTERVALO_REDDIT == 60
ULTIMO_REFRESCO_RECIENTE == InicioReloj
ULTIMO_REFRESCO_INICIAL == 0
SLEEP_GOTEO == 2
TIMEOUT_REDDIT == 5
TIMEOUT_CLIMA == 3
TIMEOUT_POST == 10
LIMIT_REDDIT == 10

\* ------------------------------------------------------------ input sets
None == [id |-> -1, fuente |-> "None", timestamp |-> -1]
Nunca == -1
DurReddit == {0, TIMEOUT_REDDIT}
DurClima == {0, TIMEOUT_CLIMA}
DurPost == {0, TIMEOUT_POST}
CreatedUtc == {40}
\* numbers of posts in an answer of the search: none, one, the limit asked for
HijosPosibles == {0, 1, LIMIT_REDDIT}
\* an HTTP answer of a source: a status and the decoded body, or an
\* exception of the call (timeout, connection error, malformed body)
\* Its field cuerpo says what the body decodes to: "ok" the documented
\* shape, "no_json" not JSON at all, "forma" JSON of another shape (a list
\* where an object is read), "sin_clave" an object that lacks a key read
\* (for the search: its last child lacks one).
Cuerpos == {"ok", "no_json", "forma", "sin_clave"}
RespuestasReddit ==
  {[excepcion |-> FALSE, status |-> s, cuerpo |-> b, hijos |-> n, created_utc |-> c] :
      s \in {200, 429}, b \in Cuerpos, n \in HijosPosibles, c \in CreatedUtc}
  \cup {[excepcion |-> TRUE, status |-> 0, cuerpo |-> "ok", hijos |-> 0, created_utc |-> 0]}
RespuestasClima ==
  {[excepcion |-> e, status |-> s, cuerpo |-> b] :
      e \in BOOLEAN, s \in {200, 500}, b \in Cuerpos}
\* an answer of the sink: a status, or 0 when requests.post raised
SinRespuesta == 0
\* get_statistics has not run yet
SinEstadisticas == [total |-> Nunca, por_fuente |-> <<>>, pendientes |-> Nunca]
RespuestasSink == {200, 201, 204, 422, 500, SinRespuesta}

VARIABLES
  pc,                     \* position of the loop
  reloj,                  \* the wall clock, time.time()
  ahora,                  \* local ahora of the current tick
  ultimo_refresco_reddit, \* local of iniciar_modo_goteo
  cola_de_envio,          \* the buffer queue
  nuevos_reddit,          \* local: result of the last get_reddit
  nuevo_clima,            \* local: result of the last get_weather
  dato_a_enviar,          \* local: the record popped on this tick
  respuesta,              \* answer of the sink to the last POST
  resultado,              \* branch taken by the last enviar_uno
  nextId,                 \* history: id of the next real record appended
  entregados,             \* history: ids of the real records handed to enviar_uno
  entregasTick,           \* history: records handed to enviar_uno on this tick
  postsDato,              \* history: POSTs issued for dato_a_enviar
  tamAlPop,               \* history: len(cola_de_envio) when pop(0) ran on this tick
  tReddit, tClima,        \* history: instant of the last real call to each source
  sepReddit, sepClima,    \* history: on a refresh tick, time since the previous call
  senales,                \* history: KeyboardInterrupts received
  excepciones,            \* history: unexpected exceptions raised in the loop body
  ticksDesdeRefresco,     \* history: iterations begun since the last refresh one
  ticksEntre,             \* history: on a refresh tick, iterations since the previous refresh
  componente,             \* component exercised on its own: the last call made
  entrada,                \* its input
  salida,                 \* what it returned
  raw_opinions,           \* DataMiner: the rows of the table raw_opinions, in id order
  llamada,                \* DataMiner: history, the arguments of the last save_to_db
  estadisticas,           \* DataMiner: what the last get_statistics reported
  contador,               \* turbo mode: the tick counter
  cachedWeather,          \* turbo mode: the weather slot of the cache
  cachedReddit,           \* turbo mode: the social slot of the cache
  lote                    \* turbo mode: the payload delivered on the last tick

\* the variables of the drip loop
varsGoteo == <<pc, reloj, ahora, ultimo_refresco_reddit, cola_de_envio, nuevos_reddit,
               nuevo_clima, dato_a_enviar, respuesta, resultado, nextId, entregados,
               entregasTick, postsDato, tamAlPop, tReddit, tClima, sepReddit, sepClima,
               senales, excepciones, ticksDesdeRefresco, ticksEntre>>
\* the variables of the components exercised on their own
varsComponentes == <<componente, entrada, salida>>
\* the variables of DataMiner
varsMinero == <<raw_opinions, llamada, estadisticas>>
\* the variables of the turbo mode
varsTurbo == <<contador, cachedWeather, cachedReddit, lote>>
\* what a step of the drip loop leaves alone
ajenas == <<varsComponentes, varsMinero, varsTurbo>>

vars == <<varsGoteo, ajenas>>

\* ------------------------------------------------------------- operators
Avanza(t, d) == IF t + d > MaxReloj THEN MaxReloj ELSE t + d

\* now_iso_format(): the current instant
now_iso_format(t) == t

\* lines 56-58: the vocabularies of SyntheticGenerator.  A problem is kept
\* as the sequence of its characters, because line 77 searches it.
lineas ==
  {"Línea 1", "Línea 2", "Línea 3", "Línea 7", "Línea 9", "Línea B", "Línea 12"}
HUMO ==
  <<"h", "u", "m", "o">>
MARCHA_LENTA ==
  <<"m", "a", "r", "c", "h", "a", " ", "l", "e", "n", "t", "a">>
RETRASO_5_MIN ==
  <<"r", "e", "t", "r", "a", "s", "o", " ", "5", " ", "m", "i", "n">>
ANDEN_LLENO ==
  <<"a", "n", "d", "é", "n", " ", "l", "l", "e", "n", "o">>
FRENADO_DE_EMERGENCIA ==
  <<"f", "r", "e", "n", "a", "d", "o", " ", "d", "e", " ", "e", "m",
  "e", "r", "g", "e", "n", "c", "i", "a">>
AVANCE_FLUIDO ==
  <<"a", "v", "a", "n", "c", "e", " ", "f", "l", "u", "i", "d", "o">>
problemas ==
  {HUMO, MARCHA_LENTA, RETRASO_5_MIN, ANDEN_LLENO, FRENADO_DE_EMERGENCIA, AVANCE_FLUIDO}
estaciones ==
  {"Pantitlán", "Hidalgo", "Centro Médico", "Chabacano", "Tacubaya", "Zócalo",
   "Guerrero", "Bellas Artes"}
\* line 71: random.randint(1000, 9999), its two ends
NumerosDeUsuario == {1000, 9999}

\* Python's `sub in s` on strings
Contiene(sub, s) ==
  \E i \in 1..(Len(s) - Len(sub) + 1) : SubSeq(s, i, i + Len(sub) - 1) = sub

\* lines 60-78: the record generar_uno builds from its three draws of the
\* vocabularies and its draw of a user number.  A formatted string is kept
\* as the sequence of its pieces.
generar_uno_siempre_baja(linea, problema, estacion, n, t) ==
  [id |-> 0,
   fuente |-> "Simulacion_Usuario",
   autor |-> <<"user_", n>>,
   texto |-> <<"Reporte ", linea, " en ", estacion, ": ">> \o problema
               \o <<" #MetroCDMX">>,
   timestamp |-> now_iso_format(t),
   metadata |-> [tipo |-> "Sintetico", prioridad |-> "Baja"]]
generar_uno_campos(linea, problema, estacion, n, t) ==
  [id |-> 0,
   fuente |-> "Simulacion_Usuario",
   autor |-> <<"user_", n>>,
   texto |-> <<"Reporte ", linea, " en ", estacion, ": ">> \o problema
               \o <<" #MetroCDMX">>,
   timestamp |-> now_iso_format(t),
   metadata |-> [tipo |-> "Sintetico",
                 prioridad |-> IF Contiene(HUMO, problema) THEN "Alta" ELSE "Baja"]]

\* SyntheticGenerator.generar_uno as the drip loop sees it: of a record the
\* loop reads the keys timestamp (line 238) and fuente (line 165) only
generar_vacio(t) == None
generar_uno(t) ==
  [id |-> 0, fuente |-> "Simulacion_Usuario", timestamp |-> now_iso_format(t)]

\* the exceptions of the model that are instances of Exception
ClaseException ==
  {"RequestException", "JSONDecodeError", "AttributeError", "KeyError", "TypeError"}
Ninguna == "ninguna"

\* lines 99-109: the exception the try block of get_weather raises on an
\* answer, Ninguna when it runs to its end
ErrorEnClima(r) ==
  IF r.excepcion THEN "RequestException"
  ELSE IF r.status # 200 THEN Ninguna
  ELSE IF r.cuerpo = "no_json" THEN "JSONDecodeError"
  ELSE IF r.cuerpo = "forma" THEN "TypeError"
  ELSE IF r.cuerpo = "sin_clave" THEN "KeyError"
  ELSE Ninguna

\* line 110: the bare except of get_weather catches whatever is raised
AtrapaClima(e) == TRUE

\* IngestionService.get_weather as a call: the exception that leaves it
\* (Ninguna when it returns) and the value returned: a record when the try
\* block reaches its return, None after the except or on another status
get_weather_llamada(r, t) ==
  LET e == ErrorEnClima(r) IN
    [lanza |-> IF e # Ninguna /\ ~AtrapaClima(e) THEN e ELSE Ninguna,
     valor |-> IF e = Ninguna /\ r.status = 200
                 THEN [id |-> 0, fuente |-> "Open-Meteo", timestamp |-> now_iso_format(t)]
                 ELSE None]

\* IngestionService.get_weather: a record on status 200, None otherwise
get_weather(r, t) == get_weather_llamada(r, t).valor

\* lines 130-144: the exception the try block of get_reddit raises on an
\* answer, Ninguna when it runs to its end
ErrorEnReddit(r) ==
  IF r.excepcion THEN "RequestException"
  ELSE IF r.status # 200 THEN Ninguna
  ELSE IF r.cuerpo = "no_json" THEN "JSONDecodeError"
  ELSE IF r.cuerpo = "forma" THEN "AttributeError"
  ELSE IF r.cuerpo = "sin_clave" /\ r.hijos > 0 THEN "KeyError"
  ELSE Ninguna

\* line 145: except Exception
AtrapaSoloRed(e) == e = "RequestException"
AtrapaReddit(e) == e \in ClaseException

\* IngestionService.get_reddit as a call: the exception that leaves it and
\* the value returned: the records extracted when the loop over the
\* children ends, [] after the except or on another status (the records
\* extracted before a child failed are dropped with the local extracted)
get_reddit_llamada(r) ==
  LET e == ErrorEnReddit(r) IN
    [lanza |-> IF e # Ninguna /\ ~AtrapaReddit(e) THEN e ELSE Ninguna,
     valor |-> IF e = Ninguna /\ r.status = 200
                 THEN [i \in 1..r.hijos |->
                         [id |-> 0, fuente |-> "Reddit", timestamp |-> r.created_utc]]
                 ELSE <<>>]

\* IngestionService.get_reddit: one record per child on status 200, [] otherwise
get_reddit(r) == get_reddit_llamada(r).valor

\* the largest count of iterations the history keeps: one more than the
\* iterations of SLEEP_GOTEO seconds that fit in a cooldown
MaxTicksContados == INTERVALO_REDDIT \div SLEEP_GOTEO + 1

\* the refresh condition of line 217
DebeRefrescarSiempre(t, ultimo) == TRUE
DebeRefrescar(t, ultimo) == t - ultimo > INTERVALO_REDDIT

\* tags the records of s with the ids n, n+1, ... in order
Etiquetar(s, n) == [i \in 1..Len(s) |-> [s[i] EXCEPT !.id = n + i - 1]]

\* lines 223-224: append the weather record if any, then extend with the posts
RellenarSobrescribe(cola, clima, reddit, n) ==
  Etiquetar((IF clima # None THEN <<clima>> ELSE <<>>) \o reddit, n)
Rellenar(cola, clima, reddit, n) ==
  LET nuevos == (IF clima # None THEN <<clima>> ELSE <<>>) \o reddit
  IN  cola \o Etiquetar(nuevos, n)

Agregados(clima, reddit) == Len(reddit) + (IF clima # None THEN 1 ELSE 0)

\* lines 230-232: the synthetic fallback
FallbackAusente(cola, t) == cola
FallbackSiempre(cola, t) == Append(cola, generar_uno(t))
Fallback(cola, t) == IF Len(cola) = 0 THEN Append(cola, generar_uno(t)) ELSE cola

\* line 235: pop(0) returns the head and leaves the rest
PopDatoFinal(cola) == cola[Len(cola)]
PopDato(cola) == Head(cola)
PopResto(cola) == Tail(cola)

\* lines 238-239: the timestamp is overwritten at delivery
SellarNada(dato, t) == dato
Sellar(dato, t) ==
  IF "timestamp" \in DOMAIN dato
    THEN [dato EXCEPT !.timestamp = now_iso_format(t)]
    ELSE dato

\* lines 170-178: the branch enviar_uno takes on an answer of the sink
ClasificarSin422(r) ==
  IF r = SinRespuesta THEN "ErrorConexion"
  ELSE IF r \in {200, 201} THEN "EnviadoOK"
  ELSE "ErrorServer"
Clasificar(r) ==
  IF r = SinRespuesta THEN "ErrorConexion"
  ELSE IF r \in {200, 201} THEN "EnviadoOK"
  ELSE IF r = 422 THEN "Error422"
  ELSE "ErrorServer"

\* ------------------------------------------------------------------ Init
Init ==
  /\ pc = "tick"
  /\ reloj = InicioReloj
  /\ ahora = 0
  /\ ultimo_refresco_reddit = ULTIMO_REFRESCO_INICIAL
  /\ cola_de_envio = <<>>
  /\ nuevos_reddit = <<>>
  /\ nuevo_clima = None
  /\ dato_a_enviar = None
  /\ respuesta = Nunca
  /\ resultado = "Ninguno"
  /\ nextId = 1
  /\ entregados = <<>>
  /\ entregasTick = 0
  /\ postsDato = 0
  /\ tamAlPop = Nunca
  /\ tReddit = Nunca
  /\ tClima = Nunca
  /\ sepReddit = Nunca
  /\ sepClima = Nunca
  /\ senales = 0
  /\ excepciones = 0
  /\ ticksDesdeRefresco = 0
  /\ ticksEntre = Nunca
  /\ componente = "ninguno"
  /\ entrada = None
  /\ salida = None
  /\ raw_opinions = <<>>
  /\ llamada = [n |-> 0, source |-> "", url |-> ""]
  /\ estadisticas = SinEstadisticas
  /\ contador = 0
  /\ cachedWeather = None
  /\ cachedReddit = <<>>
  /\ lote = <<>>

\* --------------------------------------------------------------- actions
\* The locals of an iteration (ahora, nuevos_reddit, nuevo_clima,
\* dato_a_enviar) are dead once it ends: no line reads them before they are
\* assigned again.  The model forgets them, and the per-tick history with them.
OlvidarLocales ==
  /\ nuevos_reddit' = <<>>
  /\ nuevo_clima' = None
  /\ dato_a_enviar' = None
  /\ respuesta' = Nunca
  /\ resultado' = "Ninguno"
  /\ entregasTick' = 0
  /\ postsDato' = 0
  /\ tamAlPop' = Nunca
  /\ sepReddit' = Nunca
  /\ sepClima' = Nunca

\* history of lines 213-217: the iterations begun since the last one that
\* refreshed, counted up to MaxTicksContados; a refresh iteration records
\* how many came since the previous refresh and starts the count again
ContarTick(refresca) ==
  /\ ticksDesdeRefresco' =
       IF refresca THEN 0
       ELSE IF ticksDesdeRefresco < MaxTicksContados THEN ticksDesdeRefresco + 1
       ELSE MaxTicksContados
  /\ ticksEntre' = IF refresca /\ tReddit # Nunca THEN ticksDesdeRefresco ELSE Nunca

\* lines 213-217: top of an iteration, reads the clock and tests the cooldown
TickBase ==
  /\ pc = "tick"
  /\ ahora' = reloj
  /\ pc' = IF DebeRefrescar(reloj, ultimo_refresco_reddit) THEN "reddit" ELSE "consumir"
  /\ OlvidarLocales
  /\ UNCHANGED <<ajenas, reloj, ultimo_refresco_reddit, cola_de_envio, nextId, entregados,
                 tReddit, tClima, senales, excepciones>>

Tick == TickBase /\ UNCHANGED <<ticksDesdeRefresco, ticksEntre>>

\* the same step with the count of iterations kept
TickContado == TickBase /\ ContarTick(DebeRefrescar(reloj, ultimo_refresco_reddit))

\* lines 218-220: the call of get_reddit and its return after d seconds
LlamarReddit ==
  /\ pc = "reddit"
  /\ \E r \in RespuestasReddit, d \in DurReddit :
       /\ nuevos_reddit' = get_reddit(r)
       /\ reloj' = Avanza(reloj, d)
  /\ tReddit' = reloj
  /\ sepReddit' = IF tReddit = Nunca THEN Nunca ELSE reloj - tReddit
  /\ pc' = "clima"
  /\ UNCHANGED <<ajenas, ticksDesdeRefresco, ticksEntre,
                 ahora, ultimo_refresco_reddit, cola_de_envio, nuevo_clima,
                 dato_a_enviar, respuesta, resultado, nextId, entregados, entregasTick,
                 postsDato, tamAlPop, tClima, sepClima, senales, excepciones>>

\* lines 223-226 with the weather result clima
AplicarRefrescoSiHayDatos(clima) ==
  /\ nuevo_clima' = clima
  /\ cola_de_envio' = Rellenar(cola_de_envio, clima, nuevos_reddit, nextId)
  /\ nextId' = nextId + Agregados(clima, nuevos_reddit)
  /\ ultimo_refresco_reddit' =
       IF Agregados(clima, nuevos_reddit) > 0 THEN ahora ELSE ultimo_refresco_reddit
AplicarRefresco(clima) ==
  /\ nuevo_clima' = clima
  /\ cola_de_envio' = Rellenar(cola_de_envio, clima, nuevos_reddit, nextId)
  /\ nextId' = nextId + Agregados(clima, nuevos_reddit)
  /\ ultimo_refresco_reddit' = ahora

\* lines 221-227: the call of get_weather, its return, and the refill
LlamarClima ==
  /\ pc = "clima"
  /\ \E r \in RespuestasClima, d \in DurClima :
       /\ reloj' = Avanza(reloj, d)
       /\ AplicarRefresco(get_weather(r, Avanza(reloj, d)))
  /\ tClima' = reloj
  /\ sepClima' = IF tClima = Nunca THEN Nunca ELSE reloj - tClima
  /\ pc' = "consumir"
  /\ UNCHANGED <<ajenas, ticksDesdeRefresco, ticksEntre,
                 ahora, nuevos_reddit, dato_a_enviar, respuesta, resultado, entregados,
                 entregasTick, postsDato, tamAlPop, tReddit, sepReddit, senales,
                 excepciones>>

\* lines 229-239: fallback, pop(0), timestamp overwrite.  pop(0) on an empty
\* list raises IndexError, which the handler of line 249 receives.
Consumir ==
  /\ pc = "consumir"
  /\ LET cola == Fallback(cola_de_envio, reloj) IN
       /\ tamAlPop' = Len(cola)
       /\ IF Len(cola) = 0
            THEN /\ pc' = "error"
                 /\ cola_de_envio' = cola
                 /\ UNCHANGED <<dato_a_enviar, postsDato>>
            ELSE /\ pc' = "enviar"
                 /\ dato_a_enviar' = Sellar(PopDato(cola), reloj)
                 /\ cola_de_envio' = PopResto(cola)
                 /\ postsDato' = 0
  /\ UNCHANGED <<ajenas, ticksDesdeRefresco, ticksEntre,
                 reloj, ahora, ultimo_refresco_reddit, nuevos_reddit, nuevo_clima,
                 respuesta, resultado, nextId, entregados, entregasTick, tReddit, tClima,
                 sepReddit, sepClima, senales, excepciones>>

\* lines 242, 161-178: enviar_uno(dato_a_enviar): one POST, then the branch
\* on the answer; nothing is returned to the loop
enviar_uno ==
  /\ pc = "enviar"
  /\ \E r \in RespuestasSink, d \in DurPost :
       /\ respuesta' = r
       /\ resultado' = Clasificar(r)
       /\ reloj' = Avanza(reloj, d)
  /\ postsDato' = postsDato + 1
  /\ entregasTick' = entregasTick + 1
  /\ entregados' = IF dato_a_enviar.id > 0
                     THEN Append(entregados, dato_a_enviar.id) ELSE entregados
  /\ pc' = "dormir"
  /\ UNCHANGED <<ajenas, ticksDesdeRefresco, ticksEntre,
                 ahora, ultimo_refresco_reddit, cola_de_envio, nuevos_reddit,
                 nuevo_clima, dato_a_enviar, nextId, tamAlPop, tReddit, tClima,
                 sepReddit, sepClima, senales, excepciones>>

DormirConBackoff ==
  /\ pc = "dormir"
  /\ reloj' = Avanza(reloj, IF resultado = "EnviadoOK" THEN SLEEP_GOTEO ELSE 2 * SLEEP_GOTEO)
  /\ pc' = "tick"
  /\ ahora' = 0
  /\ OlvidarLocales
  /\ ticksEntre' = Nunca
  /\ UNCHANGED ticksDesdeRefresco
  /\ UNCHANGED <<ajenas, ultimo_refresco_reddit, cola_de_envio, nextId, entregados,
                 tReddit, tClima, senales, excepciones>>

\* line 245: time.sleep(2), the end of the iteration
Dormir ==
  /\ pc = "dormir"
  /\ reloj' = Avanza(reloj, SLEEP_GOTEO)
  /\ pc' = "tick"
  /\ ahora' = 0
  /\ OlvidarLocales
  /\ ticksEntre' = Nunca
  /\ UNCHANGED ticksDesdeRefresco
  /\ UNCHANGED <<ajenas, ultimo_refresco_reddit, cola_de_envio, nextId, entregados,
                 tReddit, tClima, senales, excepciones>>

\* lines 247-248: a KeyboardInterrupt raised in get_reddit (except Exception
\* does not catch it), in enviar_uno (likewise) or in the sleep reaches the
\* loop, which breaks
KeyboardInterrupt ==
  /\ pc \in {"reddit", "enviar", "dormir"}
  /\ senales < MaxSenales
  /\ senales' = senales + 1
  /\ pc' = "fin"
  /\ UNCHANGED <<ajenas, ticksDesdeRefresco, ticksEntre,
                 reloj, ahora, ultimo_refresco_reddit, cola_de_envio, nuevos_reddit,
                 nuevo_clima, dato_a_enviar, respuesta, resultado, nextId, entregados,
                 entregasTick, postsDato, tamAlPop, tReddit, tClima, sepReddit,
                 sepClima, excepciones>>

\* lines 99-112: a KeyboardInterrupt raised inside get_weather is caught by
\* its bare except; get_weather returns None and the tick goes on
KeyboardInterruptClima ==
  /\ pc = "clima"
  /\ senales < MaxSenales
  /\ senales' = senales + 1
  /\ \E d \in DurClima : reloj' = Avanza(reloj, d)
  /\ AplicarRefresco(None)
  /\ tClima' = reloj
  /\ sepClima' = IF tClima = Nunca THEN Nunca ELSE reloj - tClima
  /\ pc' = "consumir"
  /\ UNCHANGED <<ajenas, ticksDesdeRefresco, ticksEntre,
                 ahora, nuevos_reddit, dato_a_enviar, respuesta, resultado, entregados,
                 entregasTick, postsDato, tamAlPop, tReddit, sepReddit, excepciones>>

PasoPrograma == Tick \/ LlamarReddit \/ LlamarClima \/ Consumir \/ enviar_uno \/ Dormir

Next ==
  \/ Tick
  \/ LlamarReddit
  \/ LlamarClima
  \/ Consumir
  \/ enviar_uno
  \/ Dormir
  \/ KeyboardInterrupt
  \/ KeyboardInterruptClima

Spec == Init /\ [][Next]_vars

\* the drip loop with the iterations between two refreshes counted
NextCadencia ==
  \/ TickContado
  \/ LlamarReddit
  \/ LlamarClima
  \/ Consumir
  \/ enviar_uno
  \/ Dormir
  \/ KeyboardInterrupt
  \/ KeyboardInterruptClima

SpecCadencia == Init /\ [][NextCadencia]_vars

\* ---------------------------------------------- unexpected exceptions
\* An Exception raised by a statement of the loop body that no component
\* catches (the print of line 218 on a closed stdout, say) reaches the
\* catch-all of line 249.
ErrorInesperado218 ==
  /\ pc = "reddit"
  /\ excepciones < MaxExcepciones
  /\ excepciones' = excepciones + 1
  /\ pc' = "error"
  /\ UNCHANGED <<ajenas, ticksDesdeRefresco, ticksEntre,
                 reloj, ahora, ultimo_refresco_reddit, cola_de_envio, nuevos_reddit,
                 nuevo_clima, dato_a_enviar, respuesta, resultado, nextId, entregados,
                 entregasTick, postsDato, tamAlPop, tReddit, tClima, sepReddit,
                 sepClima, senales>>

\* the same at the print of line 227, after the refill and the cooldown reset
ErrorInesperado227 ==
  /\ pc = "clima"
  /\ excepciones < MaxExcepciones
  /\ excepciones' = excepciones + 1
  /\ \E r \in RespuestasClima, d \in DurClima :
       /\ reloj' = Avanza(reloj, d)
       /\ AplicarRefresco(get_weather(r, Avanza(reloj, d)))
  /\ tClima' = reloj
  /\ sepClima' = IF tClima = Nunca THEN Nunca ELSE reloj - tClima
  /\ pc' = "error"
  /\ UNCHANGED <<ajenas, ticksDesdeRefresco, ticksEntre,
                 ahora, nuevos_reddit, dato_a_enviar, respuesta, resultado, entregados,
                 entregasTick, postsDato, tamAlPop, tReddit, sepReddit, senales>>

ManejarErrorTermina ==
  /\ pc = "error"
  /\ pc' = "fin"
  /\ UNCHANGED <<ajenas, ticksDesdeRefresco, ticksEntre,
                 reloj, ahora, ultimo_refresco_reddit, cola_de_envio, nuevos_reddit,
                 nuevo_clima, dato_a_enviar, respuesta, resultado, nextId, entregados,
                 entregasTick, postsDato, tamAlPop, tReddit, tClima, sepReddit,
                 sepClima, senales, excepciones>>

\* lines 249-251: the catch-all prints, sleeps 2 s and the loop goes on
ManejarError ==
  /\ pc = "error"
  /\ reloj' = Avanza(reloj, SLEEP_GOTEO)
  /\ pc' = "tick"
  /\ UNCHANGED <<ajenas, ticksDesdeRefresco, ticksEntre,
                 ahora, ultimo_refresco_reddit, cola_de_envio, nuevos_reddit,
                 nuevo_clima, dato_a_enviar, respuesta, resultado, nextId, entregados,
                 entregasTick, postsDato, tamAlPop, tReddit, tClima, sepReddit,
                 sepClima, senales, excepciones>>

\* line 251: a KeyboardInterrupt during the sleep of the handler is outside
\* the try block and leaves iniciar_modo_goteo
KeyboardInterruptManejador ==
  /\ pc = "error"
  /\ senales < MaxSenales
  /\ senales' = senales + 1
  /\ pc' = "fin"
  /\ UNCHANGED <<ajenas, ticksDesdeRefresco, ticksEntre,
                 reloj, ahora, ultimo_refresco_reddit, cola_de_envio, nuevos_reddit,
                 nuevo_clima, dato_a_enviar, respuesta, resultado, nextId, entregados,
                 entregasTick, postsDato, tamAlPop, tReddit, tClima, sepReddit,
                 sepClima, excepciones>>

NextErr ==
  \/ Next
  \/ ErrorInesperado218
  \/ ErrorInesperado227
  \/ ManejarError
  \/ KeyboardInterruptManejador

SpecErr == Init /\ [][NextErr]_vars

\* ------------------------------------------- the components on their own
\* Each function of the program is called once more on an input drawn from
\* its input set; the call and what came back are kept.

\* IngestionService.get_reddit() on an answer of the search
Llamar_get_reddit ==
  /\ \E r \in RespuestasReddit :
       /\ entrada' = r
       /\ salida' = get_reddit_llamada(r)
  /\ componente' = "get_reddit"
  /\ UNCHANGED <<varsGoteo, varsMinero, varsTurbo>>

\* IngestionService.get_weather() on an answer of the forecast
Llamar_get_weather ==
  /\ \E r \in RespuestasClima :
       /\ entrada' = r
       /\ salida' = get_weather_llamada(r, reloj)
  /\ componente' = "get_weather"
  /\ UNCHANGED <<varsGoteo, varsMinero, varsTurbo>>

\* SyntheticGenerator.generar_uno() on its random draws
Llamar_generar_uno ==
  /\ \E linea \in lineas, problema \in problemas, estacion \in estaciones,
        n \in NumerosDeUsuario :
       /\ entrada' = [linea |-> linea, problema |-> problema,
                      estacion |-> estacion, n |-> n]
       /\ salida' = generar_uno_campos(linea, problema, estacion, n, reloj)
  /\ componente' = "generar_uno"
  /\ UNCHANGED <<varsGoteo, varsMinero, varsTurbo>>

\* lines 104-109 and 136-142: the records of the two sources with the keys
\* they are built with
clima_campos(t) ==
  [id |-> 0, fuente |-> "Open-Meteo", timestamp |-> now_iso_format(t),
   condicion |-> "Nublado/Seco", temperatura |-> 20]
reddit_campos(c) ==
  [id |-> 0, fuente |-> "Reddit", autor |-> "autor", texto |-> <<"title">>,
   timestamp |-> c, url |-> <<"https://reddit.com", "permalink">>]

\* a JSON body decoded by the receiver: a dict or a list
Dict(d) == [tipo |-> "dict", v |-> d]
List(l) == [tipo |-> "list", v |-> l]

\* line 164: the wrapper enviar_uno posts
paquete(dato) == Dict([data |-> <<dato>>])

\* line 30 and api_server.py line 7: the path enviar_uno posts to, and the
\* only route the receiver declares; both on port 8000
RUTA_URL_ENDPOINT == "/ingestar-realtime/"
RUTA_RECEPTOR == "/ingest/metro-data"

\* api_server.py lines 7-22: receive_data on a decoded body.  datos[0] on a
\* dict looks up the key 0, which no JSON object has; on a list it is the
\* first element, whose key texto is then read.  An exception that leaves
\* the handler is answered with status 500.
receive_data(datos) ==
  IF datos.tipo = "dict"
    THEN IF DOMAIN datos.v = {} THEN 200 ELSE 500
    ELSE IF Len(datos.v) = 0 THEN 200
         ELSE IF "texto" \in DOMAIN datos.v[1] THEN 200 ELSE 500

\* the application of api_server.py on a POST: a path without a route is
\* answered 404, the declared path runs the handler
api_server(ruta, cuerpo) ==
  IF ruta = RUTA_RECEPTOR THEN receive_data(cuerpo) ELSE 404

\* the records the drip loop hands to enviar_uno, stamped at delivery
RegistrosEntregables ==
  {Sellar(clima_campos(InicioReloj), reloj)}
  \cup {Sellar(reddit_campos(c), reloj) : c \in CreatedUtc}
  \cup {Sellar(generar_uno_campos(l, HUMO, e, n, InicioReloj), reloj) :
          l \in {"Línea 1"}, e \in {"Hidalgo"}, n \in NumerosDeUsuario}

\* a POST to the receiver of api_server.py: of the wrapper of enviar_uno or
\* of a bare list, to the path of URL_ENDPOINT or to the declared route
Llamar_receive_data ==
  /\ \E dato \in RegistrosEntregables, ruta \in {RUTA_URL_ENDPOINT, RUTA_RECEPTOR},
        cuerpo \in {"paquete", "lista", "lista_vacia"} :
       LET datos == IF cuerpo = "paquete" THEN paquete(dato)
                    ELSE IF cuerpo = "lista" THEN List(<<dato>>) ELSE List(<<>>) IN
         /\ entrada' = [ruta |-> ruta, cuerpo |-> cuerpo, dato |-> dato]
         /\ salida' = [status |-> api_server(ruta, datos),
                       resultado |-> Clasificar(api_server(ruta, datos))]
  /\ componente' = "receive_data"
  /\ UNCHANGED <<varsGoteo, varsMinero, varsTurbo>>

NextComponentes ==
  \/ Llamar_get_reddit
  \/ Llamar_get_weather
  \/ Llamar_generar_uno
  \/ Llamar_receive_data

SpecComponentes == Init /\ [][NextComponentes]_vars

\* ------------------------------------------------------------- DataMiner
\* DataMiner of ola.py keeps its documents in the SQLite table raw_opinions,
\* one JSON text per row.  A JSON value is kept with its JSON type, an SQL
\* value with its storage class.
Urls == {"http://a", "http://b", "http://c"}
Fuentes == {"Reddit", "WebNews"}

JsonString(x) == [json |-> "string", v |-> x]
JsonBool(b) == [json |-> IF b THEN "true" ELSE "false", v |-> 0]
SqlText(x) == [tipo |-> "text", v |-> x]
SqlInteger(n) == [tipo |-> "integer", v |-> n]

\* json.dumps of the document of lines 84-96, its keys source, url and
\* processed_by_llm
json_dumps(d) ==
  [source |-> JsonString(d.source),
   url |-> JsonString(d.url),
   processed_by_llm |-> JsonBool(d.processed_by_llm)]

\* SQLite's json_extract(document, '$.campo'): TEXT for a JSON string,
\* INTEGER 1 or 0 for a JSON true or false
json_extract(document, campo) ==
  LET x == document[campo] IN
    IF x.json = "string" THEN SqlText(x.v)
    ELSE IF x.json = "true" THEN SqlInteger(1)
    ELSE SqlInteger(0)

\* SQLite's = on two values without affinity: values of different storage
\* classes are never equal
SqlIgual(a, b) == a.tipo = b.tipo /\ a.v = b.v

\* lines 99-100: the rows the check query selects for the url bound to it
FilasConUrlNinguna(tabla, url) == {}
FilasConUrl(tabla, url) ==
  {i \in 1..Len(tabla) : SqlIgual(json_extract(tabla[i].document, "url"), SqlText(url))}

\* lines 236-240: the rows the pending query counts
FilasPendientes(tabla) ==
  {i \in 1..Len(tabla) :
      SqlIgual(json_extract(tabla[i].document, "processed_by_llm"), SqlText("false"))}

\* lines 77-114: DataMiner.save_to_db(source, text, author, url, timestamp)
save_to_db ==
  /\ llamada.n < MaxLlamadas
  /\ \E source \in Fuentes, url \in Urls :
       LET document == [source |-> source, url |-> url, processed_by_llm |-> FALSE] IN
         /\ llamada' = [n |-> llamada.n + 1, source |-> source, url |-> url]
         /\ IF FilasConUrl(raw_opinions, url) # {}
              THEN UNCHANGED raw_opinions
              ELSE raw_opinions' =
                     Append(raw_opinions,
                            [id |-> Len(raw_opinions) + 1, document |-> json_dumps(document)])
  /\ UNCHANGED <<varsGoteo, varsComponentes, varsTurbo, estadisticas>>

\* lines 218-245: DataMiner.get_statistics()
get_statistics ==
  /\ estadisticas' =
       [total |-> Len(raw_opinions),
        por_fuente |->
          [f \in {g \in Fuentes : \E i \in 1..Len(raw_opinions) :
                     SqlIgual(json_extract(raw_opinions[i].document, "source"), SqlText(g))} |->
             Cardinality({i \in 1..Len(raw_opinions) :
                SqlIgual(json_extract(raw_opinions[i].document, "source"), SqlText(f))})],
        pendientes |-> Cardinality(FilasPendientes(raw_opinions))]
  /\ UNCHANGED <<varsGoteo, varsComponentes, varsTurbo, raw_opinions, llamada>>

NextMinero ==
  \/ save_to_db
  \/ get_statistics

SpecMinero == Init /\ [][NextMinero]_vars

\* ------------------------------------------------------------ turbo mode
\* The turbo mode of the scheduler: a tick counter, a cache of two slots
\* refreshed every N_TURBO ticks, and one batch delivered per tick.
N_TURBO == 30
LOTE_SINTETICO == 5

\* the instant of the tick numbered k: ticks are one time unit apart
InstanteTurbo(k) == InicioReloj + k

\* SyntheticGenerator: a batch of count records
generar_lote(count, t) == [i \in 1..count |-> generar_uno(t)]

\* step 1: the slots after the refresh of a boundary tick: the weather slot
\* keeps its value when the fetch gave none, the social slot takes whatever
\* the fetch returned
RefrescarClima(cache, clima) == IF clima # None THEN clima ELSE cache
RefrescarReddit(cache, reddit) == reddit

\* step 2: the payload of a tick: a copy of the cached weather record with
\* its timestamp refreshed (if there is one), the cached social list, a
\* fresh synthetic batch
ArmarLoteSinSellar(clima, reddit, t) ==
  (IF clima # None THEN <<clima>> ELSE <<>>) \o reddit
    \o generar_lote(LOTE_SINTETICO, t)
ArmarLote(clima, reddit, t) ==
  (IF clima # None THEN <<Sellar(clima, t)>> ELSE <<>>) \o reddit
    \o generar_lote(LOTE_SINTETICO, t)

\* steps 1-4: one tick of the turbo loop
TickTurbo ==
  /\ contador < MaxTicksTurbo
  /\ LET t == InstanteTurbo(contador) IN
       IF contador % N_TURBO = 0
         THEN \E rr \in RespuestasReddit, rc \in RespuestasClima :
                /\ cachedReddit' = RefrescarReddit(cachedReddit, get_reddit(rr))
                /\ cachedWeather' = RefrescarClima(cachedWeather, get_weather(rc, t))
                /\ lote' = ArmarLote(cachedWeather', cachedReddit', t)
         ELSE /\ lote' = ArmarLote(cachedWeather, cachedReddit, t)
              /\ UNCHANGED <<cachedWeather, cachedReddit>>
  /\ contador' = contador + 1
  /\ UNCHANGED <<varsGoteo, varsComponentes, varsMinero>>

NextTurbo == TickTurbo

SpecTurbo == Init /\ [][NextTurbo]_vars

\* ------------------------------------------------------------------ claims

\* C1: in drip mode the buffer holds at least one record at the moment its
\* head is popped, whatever the fetch outcomes: pop(0) never runs on an empty
\* buffer.
C1_PopNuncaVacio == tamAlPop = Nunca \/ tamAlPop >= 1

\* a refresh tick whose two fetches brought nothing, and the pop has run
C1_Witness ==
  /\ pc = "enviar"
  /\ tamAlPop = 1
  /\ ultimo_refresco_reddit = ahora
  /\ nuevos_reddit = <<>>
  /\ nuevo_clima = None
  /\ dato_a_enviar.fuente = "Simulacion_Usuario"

\* C2: drip mode preserves FIFO order: records are handed to enviar_uno in
\* the order of their appends, at most one per tick, so a record appended
\* before another is handed over on a strictly earlier tick.
C2_OrdenFIFO ==
  /\ \A i \in 1..Len(entregados) : entregados[i] = i
  /\ entregasTick <= 1
  /\ \A i \in 1..Len(cola_de_envio) : cola_de_envio[i].id > Len(entregados)
  /\ \A i, j \in 1..Len(cola_de_envio) :
        i < j => cola_de_envio[i].id < cola_de_envio[j].id
  /\ (pc = "dormir" /\ dato_a_enviar.id = 0) => Len(entregados) = nextId - 1

\* records of two different refreshes have been handed over
C2_Witness ==
  /\ Len(entregados) > LIMIT_REDDIT + 1
  /\ cola_de_envio # <<>>

\* C3: the refresh cooldown is respected: two successive real calls to the
\* same source (reddit to reddit, weather to weather) are at least
\* INTERVALO_REDDIT seconds apart, whatever the durations of the calls.
C3_CooldownRespetado ==
  /\ (sepReddit # Nunca => sepReddit >= INTERVALO_REDDIT)
  /\ (sepClima # Nunca => sepClima >= INTERVALO_REDDIT)

\* the half of C3 that the code keeps: the tick starts of two refreshes, and
\* so the two reddit calls, are more than INTERVALO_REDDIT apart
C3_CooldownReddit == sepReddit # Nunca => sepReddit > INTERVALO_REDDIT

\* C4: every real record appended by a refresh is handed to enviar_uno
\* exactly once: it is in the buffer, or in hand, or handed over, never two of
\* these and never none; records are handed over oldest first; and while a
\* real record waits, another hand-over (of the oldest one waiting) always
\* follows unless the loop is interrupted, so every record is eventually
\* handed over.  A hand-over of a real record adds one id to entregados,
\* which flips the parity of its length.
VecesEn(s, i) == Cardinality({k \in 1..Len(s) : s[k] = i})
VecesEnCola(i) == Cardinality({k \in 1..Len(cola_de_envio) : cola_de_envio[k].id = i})
EnMano(i) == dato_a_enviar.id = i /\ postsDato = 0
Pendientes == Len(entregados) < nextId - 1
C4_Conservacion ==
  /\ \A i \in 1..(nextId - 1) :
       /\ VecesEnCola(i) + VecesEn(entregados, i) + (IF EnMano(i) THEN 1 ELSE 0) = 1
       /\ (VecesEn(entregados, i) = 1 /\ dato_a_enviar.id = i) => postsDato = 1
  /\ \A k \in 1..Len(entregados) : entregados[k] = k
C4_EntregaExactamenteUna ==
  /\ []C4_Conservacion
  /\ \A b \in {0, 1} :
        (Pendientes /\ Len(entregados) % 2 = b)
          ~> (pc = "fin" \/ Len(entregados) % 2 # b)

\* a record of the second refresh has been handed over while others wait
C4_Witness ==
  /\ Len(entregados) > LIMIT_REDDIT + 1
  /\ Len(cola_de_envio) >= 1
  /\ pc = "dormir"

LiveSpec == Spec /\ WF_vars(PasoPrograma)

\* C5: every tick hands exactly one record to enviar_uno, whatever the fetch
\* outcomes, and while no refresh has brought a real record, the record
\* handed over is a synthetic one.
C5_UnaEntregaPorTick ==
  [][/\ (pc = "consumir" => pc' = "enviar")
     /\ ((pc # "tick" /\ pc' = "tick") =>
           /\ entregasTick = 1
           /\ dato_a_enviar # None
           /\ dato_a_enviar.fuente \in {"Simulacion_Usuario", "Open-Meteo", "Reddit"}
           /\ (nextId = 1 => dato_a_enviar.fuente = "Simulacion_Usuario"))]_vars

\* a second refresh has come back empty like the first, and the tick has
\* delivered a synthetic record
C5_Witness ==
  /\ pc = "dormir"
  /\ ultimo_refresco_reddit = ahora
  /\ ahora > InicioReloj + INTERVALO_REDDIT
  /\ nextId = 1
  /\ entregasTick = 1
  /\ dato_a_enviar.fuente = "Simulacion_Usuario"

\* C6: on a tick that refreshes, the buffer grows at its tail by the weather
\* record when there is one and by all the posts returned, by nothing else,
\* and ultimo_refresco_reddit is reset to the tick's ahora whatever the two
\* fetch outcomes.
C6_RefrescoAgrega ==
  [][pc = "clima" =>
       LET n == Len(cola_de_envio)
           w == IF nuevo_clima' # None THEN 1 ELSE 0
       IN  /\ Len(cola_de_envio') = n + w + Len(nuevos_reddit)
           /\ SubSeq(cola_de_envio', 1, n) = cola_de_envio
           /\ w = 1 =>
                 /\ cola_de_envio'[n + 1].fuente = "Open-Meteo"
                 /\ cola_de_envio'[n + 1].timestamp = nuevo_clima'.timestamp
           /\ \A k \in 1..Len(nuevos_reddit) :
                 /\ cola_de_envio'[n + w + k].fuente = "Reddit"
                 /\ cola_de_envio'[n + w + k].timestamp = nuevos_reddit[k].timestamp
           /\ ultimo_refresco_reddit' = ahora
           /\ ultimo_refresco_reddit' # ultimo_refresco_reddit]_vars

\* the second refresh: weather absent, LIMIT_REDDIT posts, appended behind
\* records still waiting, cooldown reset
C6_Witness ==
  /\ pc = "consumir"
  /\ ultimo_refresco_reddit = ahora
  /\ ahora > InicioReloj + INTERVALO_REDDIT
  /\ nuevo_clima = None
  /\ Len(nuevos_reddit) = LIMIT_REDDIT
  /\ Len(cola_de_envio) > LIMIT_REDDIT

\* a refresh whose two fetches failed has reset the cooldown all the same
C6_WitnessVacio ==
  /\ pc = "consumir"
  /\ ultimo_refresco_reddit = ahora
  /\ nuevo_clima = None
  /\ nuevos_reddit = <<>>

\* C7: delivery is fire-and-forget: whatever the answer of the sink,
\* enviar_uno issues exactly one POST for the record and does not put it
\* back in the buffer, the loop then sleeps the same SLEEP_GOTEO seconds, and
\* the next pop takes the next head of the buffer.
C7_FireAndForget ==
  [][/\ (pc = "enviar" /\ pc' # "fin") =>
           /\ pc' = "dormir"
           /\ postsDato' = 1
           /\ cola_de_envio' = cola_de_envio
           /\ resultado' \in {"EnviadoOK", "Error422", "ErrorServer", "ErrorConexion"}
     /\ (pc = "dormir" /\ pc' # "fin") =>
           /\ pc' = "tick"
           /\ reloj' = Avanza(reloj, SLEEP_GOTEO)
           /\ cola_de_envio' = cola_de_envio
     /\ (pc = "consumir" /\ cola_de_envio # <<>>) =>
           /\ dato_a_enviar'.id = cola_de_envio[1].id
           /\ postsDato' = 0]_vars

\* the sink has answered 422 to a real record and other records wait
C7_Witness ==
  /\ pc = "dormir"
  /\ resultado = "Error422"
  /\ postsDato = 1
  /\ dato_a_enviar.id > 0
  /\ cola_de_envio # <<>>

C9_InterrupcionTermina == [][senales' # senales => pc' = "fin"]_vars

\* C10 as stated: Delivered for every 2xx status, Rejected for 422,
\* ServerError for every other non-2xx status, ConnectionFailed when the POST
\* raised.
C10_Clasificacion2xx ==
  pc = "dormir" =>
    /\ (respuesta \in 200..299 => resultado = "EnviadoOK")
    /\ (respuesta = 422 => resultado = "Error422")
    /\ (respuesta \notin 200..299 \cup {422, SinRespuesta} => resultado = "ErrorServer")
    /\ (respuesta = SinRespuesta => resultado = "ErrorConexion")

\* C10 amended: Delivered exactly for the statuses 200 and 201, Rejected
\* for 422, ServerError for every other status (the other 2xx statuses
\* included), ConnectionFailed when the POST raised; exactly one of the four.
C10_Clasificacion ==
  pc = "dormir" =>
    /\ (resultado = "EnviadoOK" <=> respuesta \in {200, 201})
    /\ (resultado = "Error422" <=> respuesta = 422)
    /\ (resultado = "ErrorConexion" <=> respuesta = SinRespuesta)
    /\ (resultado = "ErrorServer" <=> respuesta \notin {200, 201, 422, SinRespuesta})

\* the sink has answered 204 and enviar_uno took the server-error branch
C10_Witness ==
  /\ pc = "dormir"
  /\ respuesta = 204
  /\ resultado = "ErrorServer"

\* C11: the source fetchers never raise to the scheduler: on every failure
\* of the external call (timeout or connection error, a status other than
\* 200, a body that is not JSON or not of the expected shape) get_weather
\* returns None and get_reddit returns the empty list.
Fallo(r) == r.excepcion \/ r.status # 200 \/ r.cuerpo # "ok"
C11_FuentesNoLanzan ==
  /\ componente \in {"get_reddit", "get_weather"} => salida.lanza = Ninguna
  /\ (componente = "get_reddit" /\ Fallo(entrada)) => salida.valor = <<>>
  /\ (componente = "get_weather" /\ Fallo(entrada)) => salida.valor = None

\* the search answered 200 with ten posts, the last of which lacks a key
C11_Witness ==
  /\ componente = "get_reddit"
  /\ ~entrada.excepcion
  /\ entrada.status = 200
  /\ entrada.cuerpo = "sin_clave"
  /\ entrada.hijos = LIMIT_REDDIT
  /\ salida = [lanza |-> Ninguna, valor |-> <<>>]

\* the forecast answered 200 with a body that is not JSON
C11_WitnessClima ==
  /\ componente = "get_weather"
  /\ ~entrada.excepcion
  /\ entrada.status = 200
  /\ entrada.cuerpo = "no_json"
  /\ salida = [lanza |-> Ninguna, valor |-> None]

\* C12: whatever line, problem and station generar_uno draws, its record has
\* all its fields (source, author, text, timestamp, metadata) non-empty, and
\* its priority is "Alta" or "Baja": "Alta" exactly when the problem drawn
\* contains "humo".
TextoNoVacio(x) == x # ""
PartesNoVacias(x) ==
  /\ Len(x) > 0
  /\ \A i \in 1..Len(x) : x[i] # ""
C12_RegistroSintetico ==
  componente = "generar_uno" =>
    /\ DOMAIN salida = {"id", "fuente", "autor", "texto", "timestamp", "metadata"}
    /\ TextoNoVacio(salida.fuente)
    /\ Len(salida.autor) = 2 /\ salida.autor[1] # "" /\ salida.autor[2] \in 1000..9999
    /\ PartesNoVacias(salida.texto)
    /\ salida.timestamp = reloj
    /\ DOMAIN salida.metadata = {"tipo", "prioridad"}
    /\ TextoNoVacio(salida.metadata.tipo)
    /\ salida.metadata.prioridad \in {"Alta", "Baja"}
    /\ salida.metadata.prioridad = "Alta" <=>
         (\E i \in 1..Len(entrada.problema) :
             /\ i + 3 <= Len(entrada.problema)
             /\ entrada.problema[i] = "h" /\ entrada.problema[i + 1] = "u"
             /\ entrada.problema[i + 2] = "m" /\ entrada.problema[i + 3] = "o")

\* the problem drawn was "humo" and the record came out with priority "Alta"
C12_Witness ==
  /\ componente = "generar_uno"
  /\ entrada.problema = HUMO
  /\ salida.metadata.prioridad = "Alta"

\* another problem was drawn and the record came out with priority "Baja"
C12_WitnessBaja ==
  /\ componente = "generar_uno"
  /\ entrada.problema = FRENADO_DE_EMERGENCIA
  /\ salida.metadata.prioridad = "Baja"

\* C13: every record handed to enviar_uno in drip mode carries the instant
\* of its delivery tick as its timestamp (the instant of the hand-over, not
\* earlier than the start of that tick), never the timestamp it was created
\* or fetched with, whether it is a weather, a social or a synthetic record.
C13_SelloDeEntrega ==
  pc \in {"enviar", "dormir"} =>
    /\ dato_a_enviar.fuente \in {"Open-Meteo", "Reddit", "Simulacion_Usuario"}
    /\ dato_a_enviar.timestamp >= ahora
    /\ dato_a_enviar.timestamp <= reloj
    /\ pc = "enviar" => dato_a_enviar.timestamp = reloj

\* a post created long before is about to be handed over
C13_Witness ==
  /\ pc = "enviar"
  /\ dato_a_enviar.fuente = "Reddit"
  /\ dato_a_enviar.timestamp = reloj
  /\ \A r \in RespuestasReddit : r.created_utc < ahora

\* a weather record fetched on an earlier tick is about to be handed over
C13_WitnessClima ==
  /\ pc = "enviar"
  /\ dato_a_enviar.fuente = "Open-Meteo"
  /\ ultimo_refresco_reddit < ahora
  /\ tClima < ahora
  /\ dato_a_enviar.timestamp = reloj

\* C14: the external sources are called strictly less often than the sink:
\* between two consecutive refresh cycles the number of delivery ticks is
\* the constant ratio of the refresh interval to the inter-tick interval
\* (60 s / 2 s = 30), so that no two consecutive ticks both fetch.
RazonNominal == INTERVALO_REDDIT \div SLEEP_GOTEO
C14_RazonConstante == ticksEntre # Nunca => ticksEntre = RazonNominal

\* C14, amended: between two consecutive refresh ticks there is at least one
\* tick that does not fetch and at most 60 s / 2 s = 30 of them; the number
\* is not constant, it shrinks as the calls of a tick take time.
C14_Cadencia ==
  ticksEntre # Nunca => (ticksEntre >= 1 /\ ticksEntre <= RazonNominal)

\* a second refresh begins after fewer ticks than the nominal ratio
C14_Witness ==
  /\ pc = "reddit"
  /\ tReddit # Nunca
  /\ ticksEntre >= 1
  /\ ticksEntre < RazonNominal

\* a second refresh begins after exactly the nominal number of ticks
C14_WitnessNominal ==
  /\ pc = "reddit"
  /\ tReddit # Nunca
  /\ ticksEntre = RazonNominal

\* C15: the scheduler starts as never refreshed: the first tick calls both
\* sources (social, then weather) before the first record is handed over,
\* and afterwards the refresh timestamp changes only on a tick that calls
\* the sources.
C15_AntesDeEntregar ==
  pc \in {"consumir", "enviar", "dormir"} =>
    /\ tReddit # Nunca
    /\ tClima # Nunca
    /\ tReddit <= tClima
    /\ ultimo_refresco_reddit # ULTIMO_REFRESCO_INICIAL
C15_SoloAlRefrescar ==
  ultimo_refresco_reddit' # ultimo_refresco_reddit =>
    /\ pc = "clima"
    /\ tReddit >= ahora
    /\ tClima' >= ahora
    /\ ultimo_refresco_reddit' = ahora
C15_NuncaRefrescado == []C15_AntesDeEntregar /\ [][C15_SoloAlRefrescar]_vars

\* the first tick has called both sources and then handed over its record
C15_Witness ==
  /\ pc = "dormir"
  /\ ahora = InicioReloj
  /\ tReddit = InicioReloj
  /\ tClima >= InicioReloj
  /\ ultimo_refresco_reddit = ahora
  /\ entregasTick = 1

\* C16: in turbo mode, between two refresh boundaries (tick counter mod N
\* = 0), every tick delivers one batch made of the cached weather record,
\* unchanged except for a refreshed timestamp, the full cached social list
\* unchanged, and a freshly generated synthetic batch; the cache itself
\* changes on a boundary tick only.
EsSinteticoDe(r, t) == r.fuente = "Simulacion_Usuario" /\ r.timestamp = t
C16_LoteDelTick ==
  contador > 0 =>
    LET t == InstanteTurbo(contador - 1)
        c == IF cachedWeather # None THEN 1 ELSE 0
        n == Len(cachedReddit)
    IN  /\ Len(lote) = c + n + LOTE_SINTETICO
        /\ c = 1 => /\ lote[1].fuente = cachedWeather.fuente
                    /\ lote[1].id = cachedWeather.id
                    /\ lote[1].timestamp = t
        /\ SubSeq(lote, c + 1, c + n) = cachedReddit
        /\ \A i \in (c + n + 1)..Len(lote) : EsSinteticoDe(lote[i], t)
C16_CacheEntreFronteras ==
  contador % N_TURBO # 0 =>
    (cachedWeather' = cachedWeather /\ cachedReddit' = cachedReddit)
C16_Turbo == []C16_LoteDelTick /\ [][C16_CacheEntreFronteras]_vars

\* a tick past the first boundary re-delivers a weather record cached
\* earlier and ten cached posts
C16_Witness ==
  /\ contador > 2
  /\ contador < N_TURBO
  /\ cachedWeather # None
  /\ cachedWeather.timestamp < InstanteTurbo(contador - 1)
  /\ Len(cachedReddit) = LIMIT_REDDIT
  /\ Len(lote) = 1 + LIMIT_REDDIT + LOTE_SINTETICO

\* C17: synthetic records are pure fallback: one is generated on a tick
\* exactly when the buffer is empty after the refresh check, and it is
\* handed over on that same tick; so between the steps of the loop the
\* buffer holds real records only, and no synthetic record is handed over
\* while a real one is pending.
EsSintetico(r) == r.fuente = "Simulacion_Usuario"
C17_ColaSoloReal ==
  /\ \A i \in 1..Len(cola_de_envio) : ~EsSintetico(cola_de_envio[i])
  /\ (pc \in {"enviar", "dormir"} /\ EsSintetico(dato_a_enviar)) =>
        /\ cola_de_envio = <<>>
        /\ tamAlPop = 1
        /\ dato_a_enviar.timestamp >= ahora
C17_GeneradoSiVacia ==
  (pc = "consumir" /\ pc' = "enviar") =>
    (EsSintetico(dato_a_enviar') <=> cola_de_envio = <<>>)
C17_WitnessReal ==
  /\ pc = "enviar"
  /\ ~EsSintetico(dato_a_enviar)
  /\ cola_de_envio # <<>>

\* C18: after any sequence of save_to_db calls the table raw_opinions holds
\* at most one document per url: a call with a url already stored inserts
\* nothing, a call with a new url adds exactly one document.
UrlDeFila(fila) == fila.document.url.v
UrlsGuardadas(tabla) == {UrlDeFila(tabla[i]) : i \in 1..Len(tabla)}
C18_UnaPorUrl ==
  \A i, j \in 1..Len(raw_opinions) :
     UrlDeFila(raw_opinions[i]) = UrlDeFila(raw_opinions[j]) => i = j
C18_Insercion ==
  llamada'.n # llamada.n =>
    IF llamada'.url \in UrlsGuardadas(raw_opinions)
      THEN raw_opinions' = raw_opinions
      ELSE /\ Len(raw_opinions') = Len(raw_opinions) + 1
           /\ SubSeq(raw_opinions', 1, Len(raw_opinions)) = raw_opinions
           /\ UrlDeFila(raw_opinions'[Len(raw_opinions')]) = llamada'.url
C20_PendientesSonLosInsertados ==
  estadisticas.total # Nunca =>
    /\ estadisticas.total <= Len(raw_opinions)
    /\ estadisticas.pendientes = estadisticas.total

\* C19: the payload {"data": [record]} that enviar_uno posts to URL_ENDPOINT
\* is accepted by receive_data of api_server.py: the handler completes
\* without error for every record (weather, social, synthetic) and answers
\* success, so the outcome of the delivery is Delivered.
C19_PaqueteAceptado ==
  (componente = "receive_data" /\ entrada.cuerpo = "paquete"
     /\ entrada.ruta = RUTA_URL_ENDPOINT) =>
    (salida.status = 200 /\ salida.resultado = "EnviadoOK")

\* the same wrapper posted to the route the receiver does declare
C19_PaqueteAceptadoEnRuta ==
  (componente = "receive_data" /\ entrada.cuerpo = "paquete"
     /\ entrada.ruta = RUTA_RECEPTOR) =>
    (salida.status = 200 /\ salida.resultado = "EnviadoOK")

====
